---- MODULE Spec2Model ----
(***************************************************************************)
(* The study-session engine of flashycardy-app: the server actions of      *)
(* src/actions/study-actions.ts over the queries of db/queries/progress.ts *)
(* and db/queries/cards.ts, and the client state machine of the study page *)
(* (StudyPageContent).  Every database statement is one atomic step; a     *)
(* server action is the sequence of its statements, so that the statements *)
(* of two requests interleave as they do between the awaits of the code.   *)
(***************************************************************************)
EXTENDS Integers, Sequences, FiniteSets, TLC

VARIABLES sessions,   \* study_sessions rows; the row id is the index
          progress,   \* card_progress rows; the row id is the index
          clock,      \* the last timestamp handed out by now() / new Date()
          calls,      \* the server-action request of every request slot
          ncalls,     \* number of server actions invoked so far
          lastStart,  \* history: the id the latest successful start returned
          ui,         \* the React state of the study page
          handlers    \* the async client handler awaiting each request slot

vars == <<sessions, progress, clock, calls, ncalls, lastStart, ui, handlers>>

(***************************************************************************)
(* Bounds of the model.                                                    *)
(***************************************************************************)
MaxCalls == 3          \* server actions invoked in one behaviour of Spec
MaxReviews == 50       \* reviews of one card in one behaviour of SpecMastery
MaxClientCalls == 5    \* server actions the study page invokes in SpecClient
MaxDeckLen == 3        \* cards of a deck in SpecArrange
MaxTotalTime == 2      \* seconds the total time tracker counts in SpecTimed
MaxTimedCalls == 3     \* server actions the study page invokes in SpecTimed
MaxDeckCards == 50     \* cards of a deck in SpecDeckProgress
MaxForeignReviews == 4  \* reviewCard requests in one behaviour of SpecForeign

Procs == {1, 2}        \* request slots (two requests can be in flight)

(***************************************************************************)
(* The catalog (decks and cards tables), fixed during a study session.     *)
(* Deck 1 belongs to u1 and holds cards 1 and 2, deck 2 belongs to u2 and  *)
(* holds card 3, deck 3 belongs to u1 and is empty.  A card list is given  *)
(* in the order of getDeckCards (updatedAt descending).                    *)
(***************************************************************************)
Users == {"u1", "u2"}
DeckIds == {1, 2, 3}
CardIds == {1, 2, 3}
Modes == {"standard", "shuffle", "timed"}

decksTable == [d \in DeckIds |-> [userId |-> IF d = 2 THEN "u2" ELSE "u1"]]

cardsTable == [d \in DeckIds |-> IF d = 1 THEN <<1, 2>>
                                 ELSE IF d = 2 THEN <<3>> ELSE <<>>]

\* getDeckCards without the ownership condition of its WHERE clause.
getDeckCardsOfAnyOwner(deckId, userId) == cardsTable[deckId]

\* cards.ts getDeckCards: the cards of the deck joined with the deck, kept
\* only when the deck belongs to userId.
getDeckCards(deckId, userId) ==
    IF decksTable[deckId].userId = userId THEN cardsTable[deckId] ELSE <<>>

(***************************************************************************)
(* Study session queries.                                                  *)
(***************************************************************************)
SessionRange == 1..Len(sessions)

\* An inserted row whose completedAt is stamped like startedAt.
NewSessionRowStamped(data, now) ==
    [deckId |-> data.deckId, userId |-> data.userId, mode |-> data.mode,
     totalCards |-> data.totalCards, cardsStudied |-> 0, correctAnswers |-> 0,
     completed |-> FALSE, startedAt |-> now, completedAt |-> now]

\* createStudySession: the inserted row; the schema defaults fill the rest.
NewSessionRow(data, now) ==
    [deckId |-> data.deckId, userId |-> data.userId, mode |-> data.mode,
     totalCards |-> data.totalCards, cardsStudied |-> 0, correctAnswers |-> 0,
     completed |-> FALSE, startedAt |-> now, completedAt |-> 0]

createStudySession(data, now) == Append(sessions, NewSessionRow(data, now))

\* updateStudySession's WHERE clause without the userId condition.
UpdateMatchesAnyUser(i, sessionId, userId) == i = sessionId

\* The WHERE clause of updateStudySession.
UpdateMatches(i, sessionId, userId) ==
    i = sessionId /\ sessions[i].userId = userId

\* SET updates: the columns named in updates are overwritten.
SetColumns(row, updates) ==
    [f \in DOMAIN row |-> IF f \in DOMAIN updates THEN updates[f] ELSE row[f]]

\* updateStudySession: the table after the UPDATE.
updateStudySession(sessionId, userId, updates) ==
    [i \in SessionRange |->
        IF UpdateMatches(i, sessionId, userId)
        THEN SetColumns(sessions[i], updates) ELSE sessions[i]]

\* updateStudySession's returned row: 0 when no row matched (undefined).
UpdatedRow(sessionId, userId) ==
    IF \E i \in SessionRange : UpdateMatches(i, sessionId, userId)
    THEN sessionId ELSE 0

\* completeStudySession, lines 96-105: what it returns for the row updated.
CompleteResult(sessionId, userId) ==
    IF UpdatedRow(sessionId, userId) = 0 THEN "not_found" ELSE "success"

\* The WHERE clause of getActiveStudySession.
ActiveMatches(i, deckId, userId) ==
    /\ sessions[i].deckId = deckId
    /\ sessions[i].userId = userId
    /\ sessions[i].completed = FALSE

ActiveSessions(deckId, userId) ==
    {i \in SessionRange : ActiveMatches(i, deckId, userId)}

\* getActiveStudySession ordered by startedAt ascending instead of descending.
getOldestActiveStudySession(deckId, userId) ==
    LET act == ActiveSessions(deckId, userId)
    IN IF act = {} THEN 0
       ELSE CHOOSE i \in act :
               \A j \in act : sessions[i].startedAt <= sessions[j].startedAt

\* getActiveStudySession: the id of the latest started non-completed session
\* of (deckId, userId); 0 when there is none (undefined).
getActiveStudySession(deckId, userId) ==
    LET act == ActiveSessions(deckId, userId)
    IN IF act = {} THEN 0
       ELSE CHOOSE i \in act :
               \A j \in act : sessions[j].startedAt <= sessions[i].startedAt

\* reviewCard, line 141: the session named is the active one of the deck.
ReviewMatches(sessionId, deckId, userId) ==
    LET currentSession == getActiveStudySession(deckId, userId)
    IN currentSession # 0 /\ currentSession = sessionId

(***************************************************************************)
(* IEEE-754 double arithmetic of the mastery formula                       *)
(*     Math.min(100, Math.floor((newCorrectReviews / newTotalReviews)*100))*)
(* A positive double is a 53-bit significand times a power of two.  The    *)
(* significand is held in five limbs <<top, l1, l2, l3, l4>> of 13 bits    *)
(* below the top one: top*2^52 + l1*2^39 + l2*2^26 + l3*2^13 + l4.         *)
(***************************************************************************)
Limb == 8192

\* Carries every limb's overflow into the limb above it.
Carry(x) ==
    LET a4 == x[5]
        a3 == x[4] + (a4 \div Limb)
        a2 == x[3] + (a3 \div Limb)
        a1 == x[2] + (a2 \div Limb)
        a0 == x[1] + (a1 \div Limb)
    IN <<a0, a1 % Limb, a2 % Limb, a3 % Limb, a4 % Limb>>

\* The least e with c * 2^e >= t, for 0 < c < 2 * t: c/t lies in
\* [2^-e, 2^(1-e)).
RECURSIVE NormExp(_, _)
NormExp(c, t) == IF c >= t THEN 0 ELSE 1 + NormExp(2 * c, t)

\* c / t in double arithmetic, for 0 < c < 2 * t: the significand M, rounded to
\* nearest (ties to even), of the quotient M * 2^(-52 - NormExp(c, t)).
FloatDiv(c, t) ==
    LET r0 == c * (2 ^ NormExp(c, t)) - t
        d1 == (r0 * Limb) \div t
        r1 == (r0 * Limb) % t
        d2 == (r1 * Limb) \div t
        r2 == (r1 * Limb) % t
        d3 == (r2 * Limb) \div t
        r3 == (r2 * Limb) % t
        d4 == (r3 * Limb) \div t
        r4 == (r3 * Limb) % t
        up == 2 * r4 > t \/ (2 * r4 = t /\ d4 % 2 = 1)
    IN Carry(<<1, d1, d2, d3, d4 + (IF up THEN 1 ELSE 0)>>)

\* m * 100 in double arithmetic: the exact product, rounded to 53 bits
\* (nearest, ties to even); the result keeps the scale of m.
FloatTimes100(m) ==
    LET p == Carry(<<100 * m[1], 100 * m[2], 100 * m[3], 100 * m[4], 100 * m[5]>>)
        k == IF p[1] < 128 THEN 6 ELSE 7     \* bits beyond the 53 kept
        rem == p[5] % (2 ^ k)
        half == 2 ^ (k - 1)
        up == rem > half \/ (rem = half /\ (p[5] \div (2 ^ k)) % 2 = 1)
    IN Carry(<<p[1], p[2], p[3], p[4], p[5] - rem + (IF up THEN 2 ^ k ELSE 0)>>)

\* Math.floor((c / t) * 100) for 0 <= c < 2 * t.
FloorPercent(c, t) ==
    IF c = 0 THEN 0
    ELSE FloatTimes100(FloatDiv(c, t))[1] \div (2 ^ NormExp(c, t))

Min(a, b) == IF a <= b THEN a ELSE b

\* updateCardProgress: newMasteryLevel.
MasteryLevel(newCorrectReviews, newTotalReviews) ==
    Min(100, FloorPercent(newCorrectReviews, newTotalReviews))

(***************************************************************************)
(* Card progress queries.                                                  *)
(***************************************************************************)
ProgressRange == 1..Len(progress)

\* The WHERE clause of updateCardProgress's select.
ProgressMatches(i, cardId, userId) ==
    progress[i].cardId = cardId /\ progress[i].userId = userId

\* The rows the select can return as existingProgress (LIMIT 1 without an
\* ORDER BY returns any matching row).
ExistingProgress(cardId, userId) ==
    {i \in ProgressRange : ProgressMatches(i, cardId, userId)}

\* updateCardProgress, the update branch: the table after the UPDATE of row
\* existing.id from the values read in existing.
UpdateProgress(existing, isCorrect) ==
    LET newTotalReviews == existing.totalReviews + 1
        newCorrectReviews == existing.correctReviews + (IF isCorrect THEN 1 ELSE 0)
    IN [i \in ProgressRange |->
          IF i = existing.id
          THEN [progress[i] EXCEPT !.totalReviews = newTotalReviews,
                                   !.correctReviews = newCorrectReviews,
                                   !.masteryLevel =
                                       MasteryLevel(newCorrectReviews, newTotalReviews)]
          ELSE progress[i]]

\* An insert that leaves the counters of the new row at their defaults.
InsertProgressUncounted(data) ==
    Append(progress,
           [cardId |-> data.cardId, userId |-> data.userId, deckId |-> data.deckId,
            totalReviews |-> 0, correctReviews |-> 0,
            masteryLevel |-> IF data.isCorrect THEN 100 ELSE 0])

\* updateCardProgress, the insert branch.
InsertProgress(data) ==
    Append(progress,
           [cardId |-> data.cardId, userId |-> data.userId, deckId |-> data.deckId,
            totalReviews |-> 1,
            correctReviews |-> IF data.isCorrect THEN 1 ELSE 0,
            masteryLevel |-> IF data.isCorrect THEN 100 ELSE 0])

\* getDeckProgress, lines 142-150: the card_progress rows of (deckId, userId).
ProgressData(deckId, userId) ==
    SelectSeq(progress, LAMBDA r : r.deckId = deckId /\ r.userId = userId)

RECURSIVE SumMastery(_)
SumMastery(progressData) ==
    IF progressData = <<>> THEN 0
    ELSE Head(progressData).masteryLevel + SumMastery(Tail(progressData))

\* getDeckProgress, line 159: Math.floor((studiedCards / totalCards) * 100).
ProgressPercentage(studiedCards, totalCards) == FloorPercent(studiedCards, totalCards)

\* getDeckProgress, from the rows its two selects return: cards, the cards
\* of the deck, and progressData.  The double quotient sum / studiedCards of
\* two integers below 2^53 differs from the exact one by less than
\* 1 / studiedCards, so its floor is the integer quotient.
getDeckProgress(cards, progressData) ==
    IF Len(cards) = 0
    THEN [totalCards |-> 0, studiedCards |-> 0, masteredCards |-> 0,
          averageMastery |-> 0, progressPercentage |-> 0]
    ELSE LET totalCards == Len(cards)
             studiedCards == Len(progressData)
         IN [totalCards |-> totalCards,
             studiedCards |-> studiedCards,
             masteredCards |->
                 Cardinality({i \in DOMAIN progressData :
                                 progressData[i].masteryLevel >= 80}),
             averageMastery |->
                 IF studiedCards > 0
                 THEN SumMastery(progressData) \div studiedCards
                 ELSE 0,
             progressPercentage |-> ProgressPercentage(studiedCards, totalCards)]

(***************************************************************************)
(* Server actions (study-actions.ts).  calls[p] is the request in slot p:  *)
(* its validated input, the statement it executes next (pc), the values    *)
(* its earlier statements read (snap) and, once it has returned            *)
(* (pc = "done"), the object it returned (result, retId).                  *)
(***************************************************************************)
NoCall ==
    [op |-> "none", pc |-> "done", userId |-> "", deckId |-> 0, sessionId |-> 0,
     cardId |-> 0, isCorrect |-> FALSE, mode |-> "", snap |-> <<>>,
     result |-> "none", retId |-> 0]

Idle(p) == calls[p].pc = "done"

\* The request after its return statement: the action it was and the object
\* it returned.
Return(c, result, retId) ==
    [NoCall EXCEPT !.op = c.op, !.result = result, !.retId = retId]

\* A request whose statement at label pc is executed in this step.
At(p, op, pc) == calls[p].op = op /\ calls[p].pc = pc

StartCall(userId, deckId, mode) ==
    [NoCall EXCEPT !.op = "start", !.pc = "check", !.userId = userId,
                   !.deckId = deckId, !.mode = mode]

ReviewCall(userId, sessionId, cardId, deckId, isCorrect) ==
    [NoCall EXCEPT !.op = "review", !.pc = "selectProgress", !.userId = userId,
                   !.sessionId = sessionId, !.cardId = cardId, !.deckId = deckId,
                   !.isCorrect = isCorrect]

\* A completeStudySession request that names no session.
CompleteCallOfNoSession(userId, sessionId) ==
    [NoCall EXCEPT !.op = "complete", !.pc = "updateSession", !.userId = userId]

\* completeStudySession's deckId only names the path it revalidates: no
\* statement reads it.
CompleteCall(userId, sessionId) ==
    [NoCall EXCEPT !.op = "complete", !.pc = "updateSession", !.userId = userId,
                   !.sessionId = sessionId]

\* The session ids a request can name: every existing id and one that does
\* not exist.
SessionIdInputs == 1..(Len(sessions) + 1)

\* A request arrives (from any tab or client of any authenticated user).
Invoke(p, c) ==
    /\ Idle(p)
    /\ \A q \in Procs : q < p => ~Idle(q)     \* the first free slot
    /\ ncalls < MaxCalls
    /\ calls' = [calls EXCEPT ![p] = c]
    /\ ncalls' = ncalls + 1
    /\ UNCHANGED <<sessions, progress, clock, lastStart, ui, handlers>>

\* The modes the requests of Spec are drawn from.
ModeInputs == {"standard", "timed"}

\* The <<cardId, deckId>> pairs the reviewCard requests of Spec are drawn
\* from: a card with its deck, for each user's deck, and a card with a deck
\* it does not belong to (reviewCard checks neither).
ReviewInputs == {<<1, 1>>, <<3, 2>>, <<3, 1>>}

InvokeStart(p) ==
    \E u \in Users, d \in DeckIds, m \in ModeInputs : Invoke(p, StartCall(u, d, m))

InvokeReview(p) ==
    \E u \in Users, s \in SessionIdInputs, kd \in ReviewInputs, b \in BOOLEAN :
        Invoke(p, ReviewCall(u, s, kd[1], kd[2], b))

InvokeComplete(p) ==
    \E u \in Users, s \in SessionIdInputs : Invoke(p, CompleteCall(u, s))

\* startStudySession, lines 33-40: the check for an active session; an
\* existing one is returned (resume).
StartCheck(p) ==
    /\ At(p, "start", "check")
    /\ LET c == calls[p]
           existingSession == getActiveStudySession(c.deckId, c.userId)
       IN IF existingSession # 0
          THEN /\ calls' = [calls EXCEPT ![p] = Return(c, "success", existingSession)]
               /\ lastStart' = [lastStart EXCEPT ![c.deckId, c.userId] = existingSession]
          ELSE /\ calls' = [calls EXCEPT ![p].pc = "getCards"]
               /\ UNCHANGED lastStart
    /\ UNCHANGED <<sessions, progress, clock, ncalls, ui, handlers>>

\* startStudySession, lines 43-48: the deck's cards are counted; none is a
\* failure.
StartGetCards(p) ==
    /\ At(p, "start", "getCards")
    /\ LET c == calls[p]
           cards == getDeckCards(c.deckId, c.userId)
       IN IF Len(cards) = 0
          THEN calls' = [calls EXCEPT ![p] = Return(c, "failure", 0)]
          ELSE calls' = [calls EXCEPT ![p].pc = "insert", ![p].snap = <<Len(cards)>>]
    /\ UNCHANGED <<sessions, progress, clock, ncalls, lastStart, ui, handlers>>

\* startStudySession, lines 51-63: the session row is inserted and its id
\* returned.
StartInsert(p) ==
    /\ At(p, "start", "insert")
    /\ LET c == calls[p]
           data == [deckId |-> c.deckId, userId |-> c.userId, mode |-> c.mode,
                    totalCards |-> c.snap[1]]
       IN /\ sessions' = createStudySession(data, clock + 1)
          /\ clock' = clock + 1
          /\ calls' = [calls EXCEPT ![p] = Return(c, "success", Len(sessions) + 1)]
          /\ lastStart' = [lastStart EXCEPT ![c.deckId, c.userId] = Len(sessions) + 1]
    /\ UNCHANGED <<progress, ncalls, ui, handlers>>

\* completeStudySession, lines 87-105: one UPDATE; no returned row is
\* 'Study session not found'.
CompleteUpdate(p) ==
    /\ At(p, "complete", "updateSession")
    /\ LET c == calls[p]
           session == UpdatedRow(c.sessionId, c.userId)
       IN /\ sessions' = updateStudySession(c.sessionId, c.userId,
                             [completed |-> TRUE, completedAt |-> clock + 1])
          /\ clock' = clock + 1
          /\ calls' = [calls EXCEPT ![p] =
                         Return(c, CompleteResult(c.sessionId, c.userId), session)]
          /\ lastStart' =
               IF session = 0 THEN lastStart
               ELSE [lastStart EXCEPT ![sessions[session].deckId, c.userId] = 0]
    /\ UNCHANGED <<progress, ncalls, ui, handlers>>

\* reviewCard, line 132, updateCardProgress lines 77-83: the select.
ReviewSelect(p) ==
    /\ At(p, "review", "selectProgress")
    /\ LET c == calls[p]
           found == ExistingProgress(c.cardId, c.userId)
       IN IF found = {}
          THEN calls' = [calls EXCEPT ![p].pc = "writeProgress", ![p].snap = <<>>]
          ELSE \E i \in found :
                 calls' = [calls EXCEPT ![p].pc = "writeProgress",
                             ![p].snap = [id |-> i,
                                          totalReviews |-> progress[i].totalReviews,
                                          correctReviews |-> progress[i].correctReviews]]
    /\ UNCHANGED <<sessions, progress, clock, ncalls, lastStart, ui, handlers>>

\* updateCardProgress lines 87-120: the update of the row read, or the insert.
ReviewWrite(p) ==
    /\ At(p, "review", "writeProgress")
    /\ LET c == calls[p]
       IN progress' = IF c.snap # <<>> THEN UpdateProgress(c.snap, c.isCorrect)
                      ELSE InsertProgress(c)
    /\ calls' = [calls EXCEPT ![p].pc = "getActive", ![p].snap = <<>>]
    /\ UNCHANGED <<sessions, clock, ncalls, lastStart, ui, handlers>>

\* reviewCard, lines 140-141 and 152-156: the active session of the deck is
\* read; when it is not the session named, nothing is written and success is
\* returned.
ReviewGetActive(p) ==
    /\ At(p, "review", "getActive")
    /\ LET c == calls[p]
           currentSession == getActiveStudySession(c.deckId, c.userId)
       IN IF ReviewMatches(c.sessionId, c.deckId, c.userId)
          THEN calls' = [calls EXCEPT ![p].pc = "updateSession",
                           ![p].snap =
                              [cardsStudied |-> sessions[currentSession].cardsStudied,
                               correctAnswers |-> sessions[currentSession].correctAnswers]]
          ELSE calls' = [calls EXCEPT ![p] = Return(c, "success", 0)]
    /\ UNCHANGED <<sessions, progress, clock, ncalls, lastStart, ui, handlers>>

\* reviewCard, lines 142-156: the counters are written from the values read.
ReviewUpdateSession(p) ==
    /\ At(p, "review", "updateSession")
    /\ LET c == calls[p]
       IN /\ sessions' = updateStudySession(c.sessionId, c.userId,
                [cardsStudied |-> c.snap.cardsStudied + 1,
                 correctAnswers |-> c.snap.correctAnswers + (IF c.isCorrect THEN 1 ELSE 0)])
          /\ calls' = [calls EXCEPT ![p] = Return(c, "success", 0)]
    /\ UNCHANGED <<progress, clock, ncalls, lastStart, ui, handlers>>

\* A statement of the request in slot p.
ServerStep(p) ==
    \/ StartCheck(p)
    \/ StartGetCards(p)
    \/ StartInsert(p)
    \/ CompleteUpdate(p)
    \/ ReviewSelect(p)
    \/ ReviewWrite(p)
    \/ ReviewGetActive(p)
    \/ ReviewUpdateSession(p)

\* The statement the request in slot p is about to execute throws (the
\* database is unreachable, the statement fails): the catch block of the
\* action returns { success: false, error }.
StatementThrows(p) ==
    /\ ~Idle(p)
    /\ calls' = [calls EXCEPT ![p] = Return(calls[p], "failure", 0)]
    /\ UNCHANGED <<sessions, progress, clock, ncalls, lastStart, ui, handlers>>

InitStore ==
    /\ sessions = <<>>
    /\ progress = <<>>
    /\ clock = 0
    /\ calls = [p \in Procs |-> NoCall]
    /\ ncalls = 0
    /\ lastStart = [d \in DeckIds, u \in Users |-> 0]

(***************************************************************************)
(* Spec: the server under requests of any user with any input, two at a    *)
(* time.                                                                   *)
(***************************************************************************)
Init ==
    /\ InitStore
    /\ ui = <<>>
    /\ handlers = <<>>

Next ==
    \E p \in Procs :
        \/ InvokeStart(p)
        \/ InvokeReview(p)
        \/ InvokeComplete(p)
        \/ ServerStep(p)

Spec == Init /\ [][Next]_vars

(***************************************************************************)
(* SpecMastery: one user reviews one card again and again, one request at  *)
(* a time, outside any session.                                            *)
(***************************************************************************)
MasteryReview ==
    /\ Idle(1)
    /\ ncalls < MaxReviews
    /\ \E b \in BOOLEAN : calls' = [calls EXCEPT ![1] = ReviewCall("u1", 1, 1, 1, b)]
    /\ ncalls' = ncalls + 1
    /\ UNCHANGED <<sessions, progress, clock, lastStart, ui, handlers>>

NextMastery ==
    \/ MasteryReview
    \/ ReviewSelect(1)
    \/ ReviewWrite(1)
    \/ ReviewGetActive(1)

SpecMastery == Init /\ [][NextMastery]_vars

(***************************************************************************)
(* The study page (StudyPageContent).  ui is its React state; the page is  *)
(* shown to user u1 for deck 1 with the deck's cards.  handlers[h] is an   *)
(* async handler suspended at an await: the values its closure captured    *)
(* when the event fired, and the server action (slot h) it awaits.         *)
(***************************************************************************)
ClientUser == "u1"
ClientDeck == 1
ClientCards == getDeckCards(ClientDeck, ClientUser)

\* An assignment of arr[j] to arr[i] that is not a swap.
SwapOneWay(arr, i, j) == [arr EXCEPT ![i] = arr[j]]

Swap(arr, i, j) ==
    [k \in DOMAIN arr |-> IF k = i THEN arr[j] ELSE IF k = j THEN arr[i] ELSE arr[k]]

\* The Fisher-Yates loop from position i down (positions from 1): every
\* array the loop can end with, over the choices of Math.random.
RECURSIVE FisherYates(_, _)
FisherYates(arr, i) ==
    IF i <= 1 THEN {arr}
    ELSE UNION {FisherYates(Swap(arr, i, j), i - 1) : j \in 1..i}

\* The card arrangement effect: the arrays setStudyCards can receive.
ArrangedCards(cards, mode) ==
    IF mode = "shuffle" THEN FisherYates(cards, Len(cards)) ELSE {cards}

\* The useState initial values, and the arrangement effect run on mount.
InitialUi(mode, arranged) ==
    [mode |-> mode, sessionId |-> 0, currentCardIndex |-> 0, showAnswer |-> FALSE,
     studyCards |-> arranged, correctAnswers |-> 0, cardsAnswered |-> 0,
     isLoading |-> FALSE, sessionCompleted |-> FALSE, isPaused |-> FALSE,
     skippedCards |-> {}, bookmarkedCards |-> {}, wrongCards |-> {},
     timeLeft |-> 30, totalTime |-> 0]

NoHandler ==
    [pc |-> "none", sessionId |-> 0, currentCardIndex |-> 0, length |-> 0,
     cardId |-> 0, isCorrect |-> FALSE, order |-> 0]

\* A handler can start in slot h: the first slot with nothing in flight.
FreeSlot(h) ==
    /\ handlers[h].pc = "none"
    /\ \A g \in Procs : g < h => handlers[g].pc # "none"

\* The calls of one page to the 'use server' functions are sent one at a
\* time, in the order they were made: the call of handler h runs once every
\* earlier call of the page has returned to its handler.  Calls of other
\* pages and users overlap freely; Spec covers those.
Dispatched(h) ==
    \A g \in Procs :
        (g # h /\ handlers[g].pc # "none") => handlers[g].order > handlers[h].order

\* The study card and its buttons are rendered.
CardShown ==
    /\ ui.sessionId # 0
    /\ ~ui.sessionCompleted
    /\ ui.currentCardIndex < Len(ui.studyCards)

\* A handleKeyPress that goes on after the session is completed.
KeysHandledWhenCompleted == ui.sessionId # 0 /\ ~ui.isPaused

\* A handleKeyPress that goes on while the page is paused.
KeysHandledWhilePaused == ui.sessionId # 0 /\ ~ui.sessionCompleted

\* handleKeyPress does not return at its first line.
KeysHandled == ui.sessionId # 0 /\ ~ui.sessionCompleted /\ ~ui.isPaused

\* studyCards[index].id, with indices from 0 as in the code.
CardAt(index) == ui.studyCards[index + 1]

\* The 'Start Studying' button: handleStartSession up to its await.
StartSessionClick(h) ==
    /\ ui.sessionId = 0
    /\ ~ui.isLoading
    /\ Len(ClientCards) # 0
    /\ FreeSlot(h)
    /\ ncalls < MaxClientCalls
    /\ ui' = [ui EXCEPT !.isLoading = TRUE]
    /\ handlers' = [handlers EXCEPT ![h] = [NoHandler EXCEPT !.pc = "startSession",
                                                            !.order = ncalls + 1]]
    /\ calls' = [calls EXCEPT ![h] = StartCall(ClientUser, ClientDeck, ui.mode)]
    /\ ncalls' = ncalls + 1
    /\ UNCHANGED <<sessions, progress, clock, lastStart>>

\* handleStartSession after startStudySession has returned.
StartSessionReturned(h) ==
    /\ handlers[h].pc = "startSession"
    /\ Idle(h)
    /\ ui' = IF calls[h].result = "success" /\ calls[h].retId # 0
             THEN [ui EXCEPT !.sessionId = calls[h].retId, !.currentCardIndex = 0,
                             !.showAnswer = FALSE, !.correctAnswers = 0,
                             !.cardsAnswered = 0, !.sessionCompleted = FALSE,
                             !.isLoading = FALSE]
             ELSE [ui EXCEPT !.isLoading = FALSE]
    /\ handlers' = [handlers EXCEPT ![h] = NoHandler]
    /\ calls' = [calls EXCEPT ![h] = NoCall]
    /\ UNCHANGED <<sessions, progress, clock, ncalls, lastStart>>

\* The 'Show Answer' button, or Space / Enter.
Reveal ==
    /\ \/ CardShown /\ ~ui.isPaused
       \/ KeysHandled
    /\ ~ui.showAnswer
    /\ ui' = [ui EXCEPT !.showAnswer = TRUE]
    /\ UNCHANGED <<sessions, progress, clock, calls, ncalls, lastStart, handlers>>

Difficulties == {"easy", "medium", "hard", "incorrect"}

\* handleCardReview up to its first await: reviewCard is called for the
\* current card of the render the handler belongs to.  u is the page state
\* with the other updates of the event that calls the handler.
ReviewStarted(h, difficulty, u) ==
    /\ ui.sessionId # 0
    /\ ui.currentCardIndex < Len(ui.studyCards)
    /\ FreeSlot(h)
    /\ ncalls + 1 < MaxClientCalls
    /\ ui' = [u EXCEPT !.isLoading = TRUE]
    /\ handlers' = [handlers EXCEPT ![h] =
                      [pc |-> "review", sessionId |-> ui.sessionId,
                       currentCardIndex |-> ui.currentCardIndex,
                       length |-> Len(ui.studyCards),
                       cardId |-> CardAt(ui.currentCardIndex),
                       isCorrect |-> (difficulty # "incorrect"),
                       order |-> ncalls + 1]]
    /\ calls' = [calls EXCEPT ![h] =
                   ReviewCall(ClientUser, ui.sessionId, CardAt(ui.currentCardIndex),
                              ClientDeck, difficulty # "incorrect")]
    /\ ncalls' = ncalls + 1
    /\ UNCHANGED <<sessions, progress, clock, lastStart>>

HandleCardReview(h, difficulty) == ReviewStarted(h, difficulty, ui)

\* A rating: one of the four buttons (disabled while isLoading), or one of
\* the keys 1-4.
Rate(h) ==
    /\ ui.showAnswer
    /\ \/ CardShown /\ ~ui.isPaused /\ ~ui.isLoading
       \/ KeysHandled
    /\ \E difficulty \in Difficulties : HandleCardReview(h, difficulty)

\* handleCardReview after reviewCard has returned: the counters, then the
\* next card, or the call of completeStudySession on the last card.
ReviewReturned(h) ==
    /\ handlers[h].pc = "review"
    /\ Idle(h)
    /\ LET c == handlers[h]
           counted == [ui EXCEPT !.cardsAnswered = @ + 1,
                          !.correctAnswers = IF c.isCorrect THEN @ + 1 ELSE @,
                          !.wrongCards = IF c.isCorrect THEN @ ELSE @ \cup {c.cardId}]
       IN IF c.currentCardIndex < c.length - 1
          THEN /\ ui' = [counted EXCEPT !.currentCardIndex = @ + 1,
                                        !.showAnswer = FALSE, !.isLoading = FALSE]
               /\ handlers' = [handlers EXCEPT ![h] = NoHandler]
               /\ calls' = [calls EXCEPT ![h] = NoCall]
               /\ UNCHANGED ncalls
          ELSE /\ ui' = counted
               /\ handlers' = [handlers EXCEPT ![h].pc = "complete", ![h].order = ncalls + 1]
               /\ calls' = [calls EXCEPT ![h] = CompleteCall(ClientUser, c.sessionId)]
               /\ ncalls' = ncalls + 1
    /\ UNCHANGED <<sessions, progress, clock, lastStart>>

\* handleCardReview after completeStudySession has returned.
CompleteReturned(h) ==
    /\ handlers[h].pc = "complete"
    /\ Idle(h)
    /\ ui' = [ui EXCEPT !.sessionCompleted = TRUE, !.isLoading = FALSE]
    /\ handlers' = [handlers EXCEPT ![h] = NoHandler]
    /\ calls' = [calls EXCEPT ![h] = NoCall]
    /\ UNCHANGED <<sessions, progress, clock, ncalls, lastStart>>

\* goToPreviousCard.
goToPreviousCard(u) ==
    IF u.currentCardIndex > 0
    THEN [u EXCEPT !.currentCardIndex = @ - 1, !.showAnswer = FALSE]
    ELSE u

\* goToNextCard.
goToNextCard(u) ==
    IF u.currentCardIndex < Len(u.studyCards) - 1
    THEN [u EXCEPT !.currentCardIndex = @ + 1, !.showAnswer = FALSE, !.timeLeft = 30]
    ELSE u

\* A skipCard that scores the card as a wrong answer.
skipCardScored(u) ==
    goToNextCard([u EXCEPT !.skippedCards = @ \cup {u.studyCards[u.currentCardIndex + 1]},
                           !.wrongCards = @ \cup {u.studyCards[u.currentCardIndex + 1]},
                           !.cardsAnswered = @ + 1])

\* skipCard: the current card id joins skippedCards, then goToNextCard.
skipCard(u) ==
    goToNextCard([u EXCEPT !.skippedCards = @ \cup {u.studyCards[u.currentCardIndex + 1]}])

\* The 'Previous' button (disabled on the first card and while paused), or
\* ArrowLeft.
GoBack ==
    /\ \/ CardShown /\ ui.currentCardIndex # 0 /\ ~ui.isPaused
       \/ KeysHandled
    /\ ui' = goToPreviousCard(ui)
    /\ UNCHANGED <<sessions, progress, clock, calls, ncalls, lastStart, handlers>>

\* The 'Next' button (disabled on the last card and while paused), or
\* ArrowRight.
GoForward ==
    /\ \/ CardShown /\ ui.currentCardIndex # Len(ui.studyCards) - 1 /\ ~ui.isPaused
       \/ KeysHandled
    /\ ui' = goToNextCard(ui)
    /\ UNCHANGED <<sessions, progress, clock, calls, ncalls, lastStart, handlers>>

\* The 'Skip' button (disabled while isLoading), or the S key.  With the
\* index past the last card there is no card to skip: the updater reads
\* the id of an undefined card and throws.
Skip ==
    /\ \/ CardShown /\ ~ui.isPaused /\ ~ui.isLoading
       \/ KeysHandled
    /\ ui.currentCardIndex < Len(ui.studyCards)
    /\ ui' = skipCard(ui)
    /\ UNCHANGED <<sessions, progress, clock, calls, ncalls, lastStart, handlers>>

\* The 'Pause' and 'Resume Study' buttons, or the P key: togglePause.
TogglePause ==
    /\ \/ CardShown
       \/ KeysHandled
    /\ ui' = [ui EXCEPT !.isPaused = ~@]
    /\ UNCHANGED <<sessions, progress, clock, calls, ncalls, lastStart, handlers>>

\* The 'Bookmark' button (disabled while isLoading): toggleBookmark.
ToggleBookmark ==
    /\ CardShown /\ ~ui.isPaused /\ ~ui.isLoading
    /\ LET currentCardId == CardAt(ui.currentCardIndex)
       IN ui' = [ui EXCEPT !.bookmarkedCards =
                    IF currentCardId \in @ THEN @ \ {currentCardId}
                    ELSE @ \cup {currentCardId}]
    /\ UNCHANGED <<sessions, progress, clock, calls, ncalls, lastStart, handlers>>

\* resetSession: every piece of state but studyCards, mode and isLoading
\* goes back to its initial value.
resetSession(u) ==
    [u EXCEPT !.sessionId = 0, !.currentCardIndex = 0, !.showAnswer = FALSE,
              !.correctAnswers = 0, !.cardsAnswered = 0, !.sessionCompleted = FALSE,
              !.isPaused = FALSE, !.skippedCards = {}, !.bookmarkedCards = {},
              !.wrongCards = {}, !.timeLeft = 30, !.totalTime = 0]

\* The 'Study Again' button of the results screen: resetSession.
StudyAgainClick ==
    /\ ui.sessionCompleted
    /\ ui' = resetSession(ui)
    /\ UNCHANGED <<sessions, progress, clock, calls, ncalls, lastStart, handlers>>

\* restartWithWrongCards: the cards of studyCards that are in wrongCards.
WrongCardsList(u) == SelectSeq(u.studyCards, LAMBDA card : card \in u.wrongCards)

\* The 'Review Wrong Cards' button of the results screen (rendered when
\* wrongCards is not empty): restartWithWrongCards up to the await of the
\* handleStartSession it calls.  The handler keeps what the closure of the
\* click holds: the sessionId of the completed session and wrongCardsList.
RestartWithWrongCards(h) ==
    /\ ui.sessionCompleted
    /\ ui.wrongCards # {}
    /\ Len(WrongCardsList(ui)) > 0
    /\ FreeSlot(h)
    /\ ncalls < MaxClientCalls
    /\ ui' = [resetSession([ui EXCEPT !.studyCards = WrongCardsList(ui)])
                EXCEPT !.isLoading = TRUE]
    /\ handlers' = [handlers EXCEPT ![h] =
                      [NoHandler EXCEPT !.pc = "startSession",
                                        !.sessionId = ui.sessionId,
                                        !.length = Len(WrongCardsList(ui)),
                                        !.order = ncalls + 1]]
    /\ calls' = [calls EXCEPT ![h] = StartCall(ClientUser, ClientDeck, ui.mode)]
    /\ ncalls' = ncalls + 1
    /\ UNCHANGED <<sessions, progress, clock, lastStart>>

\* The '<- Back to Deck' link of the study route during a session, and the
\* way back to the study page: StudyPageContent is unmounted and mounted
\* again, every useState at its initial value and the arrangement effect
\* run; the store keeps the session.  Taken while no call is awaited.
LeaveAndReturn ==
    /\ ui.sessionId # 0
    /\ ~ui.sessionCompleted
    /\ \A h \in Procs : handlers[h].pc = "none"
    /\ \E arranged \in ArrangedCards(ClientCards, ui.mode) :
          ui' = InitialUi(ui.mode, arranged)
    /\ UNCHANGED <<sessions, progress, clock, calls, ncalls, lastStart, handlers>>

\* The condition under which the timer effect of timed mode has its
\* interval set.
TimerRuns ==
    /\ ui.mode = "timed"
    /\ ui.sessionId # 0
    /\ ~ui.sessionCompleted
    /\ ~ui.isPaused
    /\ ui.showAnswer

\* A total time tracker that also runs while the page is paused.
TotalTimerRunsWhilePaused == ui.sessionId # 0 /\ ~ui.sessionCompleted

\* The condition under which the total time tracker has its interval set.
TotalTimerRuns == ui.sessionId # 0 /\ ~ui.sessionCompleted /\ ~ui.isPaused

\* A tick of the timed mode interval: the setTimeLeft updater.  At 1 or
\* below it calls handleCardReview('medium') and returns 30; the handler is
\* the one of the render in which the answer was revealed, whose index is
\* still the current one.
TickCard ==
    /\ TimerRuns
    /\ IF ui.timeLeft <= 1 /\ ui.currentCardIndex < Len(ui.studyCards)
       THEN \E h \in Procs : ReviewStarted(h, "medium", [ui EXCEPT !.timeLeft = 30])
       ELSE /\ ui' = [ui EXCEPT !.timeLeft = IF @ <= 1 THEN 30 ELSE @ - 1]
            /\ UNCHANGED <<sessions, progress, clock, calls, ncalls, lastStart, handlers>>

\* A tick of the total time tracker.
TickTotal ==
    /\ TotalTimerRuns
    /\ ui.totalTime < MaxTotalTime
    /\ ui' = [ui EXCEPT !.totalTime = @ + 1]
    /\ UNCHANGED <<sessions, progress, clock, calls, ncalls, lastStart, handlers>>

\* reviewCard and completeStudySession end with revalidatePath: their
\* response brings the page rendered again, with a new cards array, and the
\* card arrangement effect (dependencies [cards, mode]) runs again.  Taken
\* here before the handler resumes; run twice it gives what one run can
\* give.  The props that come with startStudySession's response precede the
\* session and give an arrangement InitClient already starts from.
CardsPropDelivered(h) ==
    /\ handlers[h].pc \in {"review", "complete"}
    /\ Idle(h)
    /\ calls[h].result = "success"
    /\ \E arrangedCards \in ArrangedCards(ClientCards, ui.mode) :
          ui' = [ui EXCEPT !.studyCards = arrangedCards]
    /\ UNCHANGED <<sessions, progress, clock, calls, ncalls, lastStart, handlers>>

(***************************************************************************)
(* SpecClient: one study page and the server actions it invokes.           *)
(***************************************************************************)
InitClient ==
    /\ InitStore
    /\ \E mode \in Modes : \E arranged \in ArrangedCards(ClientCards, mode) :
          ui = InitialUi(mode, arranged)
    /\ handlers = [h \in Procs |-> NoHandler]

NextClient ==
    \/ Reveal
    \/ GoBack
    \/ GoForward
    \/ Skip
    \/ TogglePause
    \/ \E h \in Procs :
          \/ StartSessionClick(h)
          \/ StartSessionReturned(h)
          \/ Rate(h)
          \/ ReviewReturned(h)
          \/ CompleteReturned(h)
          \/ CardsPropDelivered(h)
          \/ Dispatched(h) /\ ServerStep(h)

SpecClient == InitClient /\ [][NextClient]_vars

(***************************************************************************)
(* SpecAutoRate: the study page in timed mode when every card is revealed  *)
(* and left to the countdown.                                              *)
(***************************************************************************)
InitTimed ==
    /\ InitStore
    /\ ui = InitialUi("timed", ClientCards)
    /\ handlers = [h \in Procs |-> NoHandler]

NextAutoRate ==
    \/ Reveal
    \/ TickCard
    \/ \E h \in Procs :
          \/ StartSessionClick(h)
          \/ StartSessionReturned(h)
          \/ ReviewReturned(h)
          \/ CompleteReturned(h)
          \/ Dispatched(h) /\ ServerStep(h)

SpecAutoRate == InitTimed /\ [][NextAutoRate]_vars

(***************************************************************************)
(* SpecTimed: the study page in timed mode under every event, with its two *)
(* timers.                                                                 *)
(***************************************************************************)
\* A rating may start: the call bound of SpecTimed leaves room for it and
\* for the completeStudySession that can follow it.
TimedCallsLeft == ncalls + 1 < MaxTimedCalls

NextTimed ==
    \/ Reveal
    \/ GoBack
    \/ GoForward
    \/ Skip
    \/ TogglePause
    \/ ToggleBookmark
    \/ (ui.timeLeft <= 1 => TimedCallsLeft) /\ TickCard
    \/ TickTotal
    \/ \E h \in Procs :
          \/ StartSessionClick(h)
          \/ StartSessionReturned(h)
          \/ TimedCallsLeft /\ Rate(h)
          \/ ReviewReturned(h)
          \/ CompleteReturned(h)
          \/ Dispatched(h) /\ ServerStep(h)

SpecTimed == InitTimed /\ [][NextTimed]_vars

(***************************************************************************)
(* SpecArrange: the card arrangement effect on every deck of up to         *)
(* MaxDeckLen cards, in every mode.  ui holds the props (cards, mode) and  *)
(* the studyCards state, empty until the effect has run.                   *)
(***************************************************************************)
CardLists ==
    {c \in UNION {[1..n -> CardIds] : n \in 1..MaxDeckLen} :
        \A i, j \in DOMAIN c : c[i] = c[j] => i = j}

InitArrange ==
    /\ InitStore
    /\ handlers = <<>>
    /\ \E cards \in CardLists, mode \in Modes :
          ui = [cards |-> cards, mode |-> mode, studyCards |-> <<>>]

ArrangeEffect ==
    /\ ui.studyCards = <<>>
    /\ \E arrangedCards \in ArrangedCards(ui.cards, ui.mode) :
          ui' = [ui EXCEPT !.studyCards = arrangedCards]
    /\ UNCHANGED <<sessions, progress, clock, calls, ncalls, lastStart, handlers>>

NextArrange == ArrangeEffect

SpecArrange == InitArrange /\ [][NextArrange]_vars

(***************************************************************************)
(* SpecDeckProgress: getDeckProgress on stores of up to MaxDeckCards cards *)
(* in the deck of u1 and at most one card_progress row per card.  ui holds *)
(* the cards rows of the deck and the object getDeckProgress returned,     *)
(* <<>> when the store has changed since.  The rows are the two that       *)
(* updateCardProgress leaves after 4 correct reviews of 5 and after 79 of  *)
(* 100, added in the order of their masteryLevel.                          *)
(***************************************************************************)
ProgressInputs ==
    {[totalReviews |-> 100, correctReviews |-> 79, masteryLevel |-> MasteryLevel(79, 100)],
     [totalReviews |-> 5, correctReviews |-> 4, masteryLevel |-> MasteryLevel(4, 5)]}

InitDeckProgress ==
    /\ InitStore
    /\ handlers = <<>>
    /\ \E n \in 0..MaxDeckCards :
          ui = [cards |-> [k \in 1..n |-> k], deckProgress |-> <<>>]

\* A card of the deck not yet reviewed gets its card_progress row.
AddProgressRow ==
    /\ Len(progress) < Len(ui.cards)
    /\ \E r \in ProgressInputs :
          /\ progress # <<>> => progress[Len(progress)].masteryLevel <= r.masteryLevel
          /\ progress' = Append(progress,
                 [cardId |-> ui.cards[Len(progress) + 1], userId |-> ClientUser,
                  deckId |-> ClientDeck, totalReviews |-> r.totalReviews,
                  correctReviews |-> r.correctReviews, masteryLevel |-> r.masteryLevel])
    /\ ui' = [ui EXCEPT !.deckProgress = <<>>]
    /\ UNCHANGED <<sessions, clock, calls, ncalls, lastStart, handlers>>

ReadDeckProgress ==
    /\ ui.deckProgress = <<>>
    /\ ui' = [ui EXCEPT !.deckProgress =
                 getDeckProgress(ui.cards, ProgressData(ClientDeck, ClientUser))]
    /\ UNCHANGED <<sessions, progress, clock, calls, ncalls, lastStart, handlers>>

NextDeckProgress == AddProgressRow \/ ReadDeckProgress

SpecDeckProgress == InitDeckProgress /\ [][NextDeckProgress]_vars

(***************************************************************************)
(* SpecInTurn: the study page when every card is revealed and rated in     *)
(* its turn: no skip, no navigation, no rating while a call is awaited.    *)
(***************************************************************************)
RateInTurn(h) ==
    /\ \A g \in Procs : handlers[g].pc = "none"
    /\ Rate(h)

NextInTurn ==
    \/ Reveal
    \/ \E h \in Procs :
          \/ StartSessionClick(h)
          \/ StartSessionReturned(h)
          \/ RateInTurn(h)
          \/ ReviewReturned(h)
          \/ CompleteReturned(h)
          \/ CardsPropDelivered(h)
          \/ Dispatched(h) /\ ServerStep(h)

SpecInTurn == InitClient /\ [][NextInTurn]_vars

(***************************************************************************)
(* SpecRestart: the study page when every card is rated in its turn and    *)
(* the results screen's buttons are used.                                  *)
(***************************************************************************)
NextRestart ==
    \/ Reveal
    \/ StudyAgainClick
    \/ \E h \in Procs :
          \/ StartSessionClick(h)
          \/ StartSessionReturned(h)
          \/ RateInTurn(h)
          \/ ReviewReturned(h)
          \/ CompleteReturned(h)
          \/ RestartWithWrongCards(h)
          \/ Dispatched(h) /\ ServerStep(h)

SpecRestart == InitClient /\ [][NextRestart]_vars

(***************************************************************************)
(* SpecResume: the study page when cards are rated in turn, some passed    *)
(* over with Next, and the page is left and opened again during a session. *)
(***************************************************************************)
NextResume ==
    \/ Reveal
    \/ GoForward
    \/ LeaveAndReturn
    \/ \E h \in Procs :
          \/ StartSessionClick(h)
          \/ StartSessionReturned(h)
          \/ RateInTurn(h)
          \/ ReviewReturned(h)
          \/ CompleteReturned(h)
          \/ Dispatched(h) /\ ServerStep(h)

SpecResume == InitClient /\ [][NextResume]_vars

(***************************************************************************)
(* SpecFailure: the study page when cards are rated in turn and any        *)
(* statement of a server action can throw.                                 *)
(***************************************************************************)
NextFailure ==
    \/ Reveal
    \/ \E h \in Procs :
          \/ StartSessionClick(h)
          \/ StartSessionReturned(h)
          \/ RateInTurn(h)
          \/ ReviewReturned(h)
          \/ CompleteReturned(h)
          \/ Dispatched(h) /\ ServerStep(h)
          \/ Dispatched(h) /\ StatementThrows(h)

SpecFailure == InitClient /\ [][NextFailure]_vars

(***************************************************************************)
(* SpecForeign: u1 reviews, one request at a time, cards under decks they  *)
(* do not belong to, and reads getDeckProgress.  ui holds the deck asked   *)
(* for and the object getDeckProgress returned.                            *)
(***************************************************************************)
\* The <<cardId, deckId>> pairs of the requests: the cards of deck 1 with
\* their deck, and card 3 of deck 2 (of u2) with its deck and with deck 1.
ForeignInputs == {<<1, 1>>, <<2, 1>>, <<3, 1>>, <<3, 2>>}

InitForeign ==
    /\ InitStore
    /\ handlers = <<>>
    /\ ui = [deckId |-> 0, deckProgress |-> <<>>]

ForeignReview ==
    /\ Idle(1)
    /\ ncalls < MaxForeignReviews
    /\ \E kd \in ForeignInputs, b \in BOOLEAN :
          calls' = [calls EXCEPT ![1] = ReviewCall(ClientUser, 1, kd[1], kd[2], b)]
    /\ ncalls' = ncalls + 1
    /\ UNCHANGED <<sessions, progress, clock, lastStart, ui, handlers>>

\* getStudyProgress, or the deck page: getDeckProgress(deckId, userId).
\* Its first select takes the cards of the deck whoever owns it.
ReadProgressOfDeck ==
    /\ Idle(1)
    /\ \E d \in DeckIds :
          ui' = [deckId |-> d,
                 deckProgress |-> getDeckProgress(cardsTable[d],
                                                  ProgressData(d, ClientUser))]
    /\ UNCHANGED <<sessions, progress, clock, calls, ncalls, lastStart, handlers>>

NextForeign ==
    \/ ForeignReview
    \/ ReadProgressOfDeck
    \/ ReviewSelect(1)
    \/ ReviewWrite(1)
    \/ ReviewGetActive(1)

SpecForeign == InitForeign /\ [][NextForeign]_vars

(***************************************************************************)
(* Properties of the server actions, checked under Spec.                   *)
(***************************************************************************)

\* The request in slot p executes its statement at label pc in this step.
Executes(p, op, pc) == At(p, op, pc) /\ calls'[p].pc # pc

\* C1: at most one session with completed = false exists per (deckId,
\* userId) in every reachable state of the store.
C1_AtMostOneActive ==
    \A d \in DeckIds, u \in Users : Cardinality(ActiveSessions(d, u)) <= 1

\* C2: a startStudySession call for (deckId, userId) that follows a
\* successful one with no insert or completion for (deckId, userId) in
\* between returns the same sessionId at its check and writes nothing: no
\* row is created and no row changes, whatever mode it passes.
C2_StartTwiceResumes ==
    [][\A p \in Procs :
          (Executes(p, "start", "check")
             /\ lastStart[calls[p].deckId, calls[p].userId] # 0)
          => /\ calls'[p].pc = "done"
             /\ calls'[p].result = "success"
             /\ calls'[p].retId = lastStart[calls[p].deckId, calls[p].userId]
             /\ sessions' = sessions]_vars

\* Two startStudySession calls made one after the other in the same slot
\* have returned session 1, the only row.
C2_Witness ==
    /\ ncalls = 2
    /\ calls[2] = NoCall
    /\ calls[1] = Return(StartCall("u1", 1, "timed"), "success", 1)
    /\ Len(sessions) = 1
    /\ lastStart[1, "u1"] = 1

\* C3: completeStudySession on an already completed session of the caller
\* leaves the row (cardsStudied, correctAnswers, completedAt) as it was and
\* reports no error.
C3_CompleteTwiceNoOp ==
    [][\A p \in Procs :
          LET c == calls[p]
          IN (Executes(p, "complete", "updateSession")
                /\ c.sessionId \in SessionRange
                /\ sessions[c.sessionId].userId = c.userId
                /\ sessions[c.sessionId].completed)
             => /\ calls'[p].result = "success"
                /\ sessions'[c.sessionId] = sessions[c.sessionId]]_vars

\* C4: every reviewCard call that writes the counters of the caller's
\* non-completed session adds exactly 1 to cardsStudied, and 1 to
\* correctAnswers iff isCorrect, whatever other calls interleave with it.
C4_ReviewCountsOnce ==
    [][\A p \in Procs :
          LET c == calls[p]
          IN (Executes(p, "review", "updateSession")
                /\ ~sessions[c.sessionId].completed)
             => /\ sessions'[c.sessionId].cardsStudied
                     = sessions[c.sessionId].cardsStudied + 1
                /\ sessions'[c.sessionId].correctAnswers
                     = sessions[c.sessionId].correctAnswers
                         + (IF c.isCorrect THEN 1 ELSE 0)]_vars

\* C6: every card_progress row has correctReviews <= totalReviews and
\* masteryLevel = floor(100 * correctReviews / totalReviews) (0 when
\* totalReviews = 0), hence within 0..100.
C6_MasteryFormula ==
    \A i \in ProgressRange :
        LET r == progress[i]
        IN /\ r.correctReviews <= r.totalReviews
           /\ r.masteryLevel \in 0..100
           /\ r.masteryLevel = IF r.totalReviews > 0
                               THEN (100 * r.correctReviews) \div r.totalReviews
                               ELSE 0

\* C8: reviewCard naming a session that is not the caller's active session
\* of the deck (unknown, completed, or another one) returns a failure and
\* changes no session row.
C8_ReviewWithoutSessionFails ==
    [][\A p \in Procs :
          LET c == calls[p]
          IN (Executes(p, "review", "getActive")
                /\ c.sessionId \notin ActiveSessions(c.deckId, c.userId))
             => /\ calls'[p].pc = "done"
                /\ calls'[p].result # "success"
                /\ sessions' = sessions]_vars

\* A session row of another user than the one the request acts for.
Foreign(i, userId) == i \in SessionRange /\ sessions[i].userId # userId

\* C9: no reviewCard or completeStudySession statement changes a session
\* row of another user, and what the caller gets for another user's session
\* id is what it gets for an id that does not exist.
C9_LooksMissing ==
    \A u \in Users, i \in SessionRange :
        Foreign(i, u)
        => /\ CompleteResult(i, u) = CompleteResult(Len(sessions) + 1, u)
           /\ \A d \in DeckIds :
                 ReviewMatches(i, d, u) = ReviewMatches(Len(sessions) + 1, d, u)

C9_Untouched ==
    \A p \in Procs :
        (calls[p].op \in {"review", "complete"} /\ calls'[p] # calls[p])
        => \A i \in SessionRange :
              Foreign(i, calls[p].userId) => sessions'[i] = sessions[i]

C9_OwnerScoped == [](C9_LooksMissing) /\ [][C9_Untouched]_vars

\* A completeStudySession call has returned 'not found' while the other
\* user's session exists, still not completed.
C9_Witness ==
    /\ \E p \in Procs : calls[p].op = "complete" /\ calls[p].result = "not_found"
    /\ Len(sessions) = 1
    /\ sessions[1].userId = "u2"
    /\ ~sessions[1].completed
    /\ ncalls = 2

\* completedAt is null (0) exactly in the rows with completed = false.
C15_CompletedAtSet ==
    \A i \in SessionRange : sessions[i].completed <=> sessions[i].completedAt # 0

\* No step takes a row from completed = true to completed = false.
C15_StaysCompleted ==
    \A i \in SessionRange : sessions[i].completed => sessions'[i].completed

\* C15: completed is monotonic, no statement of any request sets it back
\* to false, and completedAt is null exactly while completed = false.
C15_CompletedMonotonic == [](C15_CompletedAtSet) /\ [][C15_StaysCompleted]_vars

\* A session has been completed and a reviewCard request has returned.
C15_Witness ==
    /\ Len(sessions) = 1
    /\ sessions[1].completed
    /\ sessions[1].completedAt # 0
    /\ ncalls = 3
    /\ \E p \in Procs : calls[p].op = "review" /\ Idle(p)

\* C10: startStudySession for a deck that is empty or not the caller's,
\* with no active session, returns a failure and creates no session row.
C10_EmptyDeckStartFails ==
    [][\A p \in Procs :
          LET c == calls[p]
          IN (Executes(p, "start", "getCards")
                /\ (cardsTable[c.deckId] = <<>>
                      \/ decksTable[c.deckId].userId # c.userId))
             => /\ calls'[p].pc = "done"
                /\ calls'[p].result = "failure"
                /\ sessions' = sessions]_vars

\* A startStudySession call has returned a failure and the store holds no
\* session.
C10_Witness ==
    /\ \E p \in Procs : calls[p].op = "start" /\ calls[p].result = "failure"
    /\ sessions = <<>>

(***************************************************************************)
(* Properties of the study page, checked under SpecClient and SpecInTurn.  *)
(***************************************************************************)

C5_Bounded ==
    \A i \in SessionRange :
        /\ 0 <= sessions[i].correctAnswers
        /\ sessions[i].correctAnswers <= sessions[i].cardsStudied
        /\ sessions[i].cardsStudied <= sessions[i].totalCards

C5_TotalCardsFixed ==
    \A i \in SessionRange : sessions'[i].totalCards = sessions[i].totalCards

\* C5: in every reachable state every session row has
\* 0 <= correctAnswers <= cardsStudied <= totalCards, and no step changes
\* the totalCards of a row, whatever the page does: start, reveal, rate,
\* skip, go back, go forward, complete.
C5_CountersWithinTotal == [](C5_Bounded) /\ [][C5_TotalCardsFixed]_vars

\* The fields of the page a skip may change.
C7_Frame(u, v) ==
    v = [u EXCEPT !.skippedCards = v.skippedCards,
                  !.currentCardIndex = v.currentCardIndex,
                  !.showAnswer = v.showAnswer,
                  !.timeLeft = v.timeLeft]

\* C7: a skip of the current card calls no server action and leaves the
\* session rows, the card_progress rows, cardsAnswered, correctAnswers and
\* wrongCards of the page as they were; it adds the current card id to
\* skippedCards and moves the index to the next card, if there is one.
C7_SkipBypassesScoring ==
    [][Skip =>
          /\ sessions' = sessions
          /\ progress' = progress
          /\ calls' = calls
          /\ ncalls' = ncalls
          /\ handlers' = handlers
          /\ C7_Frame(ui, ui')
          /\ ui'.skippedCards = ui.skippedCards \cup {CardAt(ui.currentCardIndex)}
          /\ ui'.currentCardIndex
                = IF ui.currentCardIndex < Len(ui.studyCards) - 1
                  THEN ui.currentCardIndex + 1
                  ELSE ui.currentCardIndex]_vars

\* The first card of a started session has been skipped: the page shows
\* the second card, and nothing has been counted or reviewed.
C7_Witness ==
    /\ ui.sessionId = 1
    /\ ui.skippedCards = {CardAt(0)}
    /\ ui.currentCardIndex = 1
    /\ ui.cardsAnswered = 0
    /\ ui.wrongCards = {}
    /\ sessions[1].cardsStudied = 0
    /\ progress = <<>>
    /\ ncalls = 1

\* The card_progress rows of the page's user for card c.
C11_Rows(c) == {i \in ProgressRange : ProgressMatches(i, c, ClientUser)}

\* The page's session is over and every card of the deck was rated exactly
\* once in it, none skipped.
C11_EachCardRatedOnce ==
    /\ ui.sessionCompleted
    /\ ui.skippedCards = {}
    /\ Len(sessions) = 1
    /\ \A k \in 1..Len(ClientCards) :
          /\ Cardinality(C11_Rows(ClientCards[k])) = 1
          /\ \A i \in C11_Rows(ClientCards[k]) : progress[i].totalReviews = 1

\* The cards rated 'incorrect': their one review was not a correct one.
C11_RatedIncorrect ==
    {progress[i].cardId : i \in {j \in ProgressRange : progress[j].correctReviews = 0}}

\* C11: a fresh session over the deck's N cards in which each card is
\* revealed and rated in its turn ends, every card rated exactly once, with
\* totalCards = N, cardsStudied = N, correctAnswers = the number of ratings
\* other than 'incorrect', wrongCards = the ids rated 'incorrect', and
\* completed = true.
C11_SessionTotals ==
    C11_EachCardRatedOnce
    => /\ sessions[1].totalCards = Len(ClientCards)
       /\ sessions[1].cardsStudied = Len(ClientCards)
       /\ sessions[1].correctAnswers = Len(ClientCards) - Cardinality(C11_RatedIncorrect)
       /\ ui.correctAnswers = sessions[1].correctAnswers
       /\ ui.wrongCards = C11_RatedIncorrect
       /\ sessions[1].completed

\* Both cards were rated once, the first correctly and the second
\* 'incorrect', and the session is over.
C11_Witness ==
    /\ C11_EachCardRatedOnce
    /\ ui.wrongCards = {CardAt(1)}
    /\ sessions[1].correctAnswers = 1
    /\ sessions[1].cardsStudied = 2
    /\ sessions[1].completed

(***************************************************************************)
(* Properties of the card arrangement, checked under SpecArrange.          *)
(***************************************************************************)

\* The number of positions of the list that hold id.
C13_Count(list, id) == Cardinality({k \in DOMAIN list : list[k] = id})

\* C13: on every deck of N >= 1 cards the arrangement has length N and
\* holds every card id as many times as the deck does, whatever indices the
\* shuffle draws; in standard and timed mode it is the deck's order.
C13_ArrangementIsPermutation ==
    ui.studyCards # <<>>
    => /\ Len(ui.studyCards) = Len(ui.cards)
       /\ \A id \in CardIds : C13_Count(ui.studyCards, id) = C13_Count(ui.cards, id)
       /\ ui.mode # "shuffle" => ui.studyCards = ui.cards

\* The shuffle has turned the deck <<1, 2, 3>> into <<3, 1, 2>>.
C13_Witness ==
    /\ ui.mode = "shuffle"
    /\ ui.cards = <<1, 2, 3>>
    /\ ui.studyCards = <<3, 1, 2>>

(***************************************************************************)
(* Properties of getDeckProgress, checked under SpecDeckProgress.          *)
(***************************************************************************)

\* The card_progress rows of (deck, user) in the store.
C16_Rows ==
    {i \in ProgressRange :
        progress[i].deckId = ClientDeck /\ progress[i].userId = ClientUser}

\* The sum of masteryLevel over the rows of index up to n.
RECURSIVE C16_Sum(_)
C16_Sum(n) == IF n = 0 THEN 0
              ELSE C16_Sum(n - 1) + (IF n \in C16_Rows THEN progress[n].masteryLevel ELSE 0)

\* C16: getDeckProgress returns totalCards = the number of cards of the
\* deck, studiedCards = the number of card_progress rows of (deck, user),
\* masteredCards = the number of those with masteryLevel >= 80,
\* averageMastery = floor of their mean masteryLevel (0 if none) and
\* progressPercentage = floor(100 * studiedCards / totalCards) (0 when the
\* deck has no card).
C16_DeckProgress ==
    ui.deckProgress # <<>>
    => LET studied == Cardinality(C16_Rows)
       IN /\ ui.deckProgress.totalCards = Len(ui.cards)
          /\ ui.deckProgress.studiedCards = studied
          /\ ui.deckProgress.masteredCards =
                Cardinality({i \in C16_Rows : progress[i].masteryLevel >= 80})
          /\ ui.deckProgress.averageMastery =
                (IF studied = 0 THEN 0 ELSE C16_Sum(Len(progress)) \div studied)
          /\ ui.deckProgress.progressPercentage =
                (IF Len(ui.cards) = 0 THEN 0 ELSE (100 * studied) \div Len(ui.cards))

(***************************************************************************)
(* Properties of updateCardProgress, checked under SpecMastery.            *)
(***************************************************************************)

\* The card has no row and is not among the studied cards until its first
\* review is written, and one row from then on, whose totalReviews is the
\* number of reviews made once the last one has returned.
C17_Counted ==
    /\ Len(progress) <= 1
    /\ getDeckProgress(cardsTable[1], ProgressData(1, "u1")).studiedCards = Len(progress)
    /\ (Idle(1) /\ ncalls > 0)
         => /\ Len(progress) = 1
            /\ progress[1].totalReviews = ncalls
            /\ progress[1].correctReviews <= ncalls

\* The write of a review: the first creates the row, a later one adds 1 to
\* totalReviews and 1 to correctReviews iff the review is correct.
C17_Write ==
    Executes(1, "review", "writeProgress")
    => LET one == IF calls[1].isCorrect THEN 1 ELSE 0
       IN IF progress = <<>>
          THEN /\ Len(progress') = 1
               /\ progress'[1].cardId = calls[1].cardId
               /\ progress'[1].userId = calls[1].userId
               /\ progress'[1].totalReviews = 1
               /\ progress'[1].correctReviews = one
               /\ progress'[1].masteryLevel = 100 * one
          ELSE /\ Len(progress') = 1
               /\ progress'[1].totalReviews = progress[1].totalReviews + 1
               /\ progress'[1].correctReviews = progress[1].correctReviews + one

\* C17: a card never reviewed has no card_progress row and is not counted
\* in studiedCards; the first review creates the row with totalReviews = 1,
\* correctReviews = 1 if correct else 0, masteryLevel = 100 if correct else
\* 0; every later review made after the one before has returned adds 1 to
\* totalReviews and 1 to correctReviews iff correct.
C17_ProgressCounts == [](C17_Counted) /\ [][C17_Write]_vars

\* Three reviews of the card have returned, one of them correct.
C17_Witness ==
    /\ Idle(1)
    /\ ncalls = 3
    /\ Len(progress) = 1
    /\ progress[1].totalReviews = 3
    /\ progress[1].correctReviews = 1

\* A rating of the page is awaiting reviewCard or completeStudySession.
C18_Awaiting == \E h \in Procs : handlers[h].pc \in {"review", "complete"}

\* The index is that of a card of the sequence.
C18_IndexInRange ==
    ui.studyCards # <<>> => ui.currentCardIndex <= Len(ui.studyCards) - 1

\* While a rating is awaited no other rating starts, and the index and the
\* skipped set change only when the awaited reviewCard returns.
C18_NothingAccepted ==
    C18_Awaiting
    => /\ \A h \in Procs : ~Rate(h)
       /\ (ui'.currentCardIndex # ui.currentCardIndex
             \/ ui'.skippedCards # ui.skippedCards)
          => \E h \in Procs : ReviewReturned(h)

\* C18: while a rating awaits its server calls the page accepts no second
\* rating, skip or navigation, so that the index advances once per rating
\* and never passes the last card.
C18_RatingsSerialized == [](C18_IndexInRange) /\ [][C18_NothingAccepted]_vars

\* The page has a session that is not over.
C14_Active == ui.sessionId # 0 /\ ~ui.sessionCompleted

\* C14: once the session is active no step changes studyCards until the
\* session is completed: the arrangement is not computed again, whatever
\* props the page receives.
C14_SequenceFrozen == [][C14_Active => ui'.studyCards = ui.studyCards]_vars

(***************************************************************************)
(* Properties of the timers, checked under SpecAutoRate and SpecTimed.     *)
(***************************************************************************)

\* The countdown reaches zero on a revealed card, the page not paused.
C12_TimeUp ==
    /\ TickCard
    /\ ui.timeLeft <= 1
    /\ ui.currentCardIndex < Len(ui.studyCards)

\* The tick is the rating 'medium' of the current card: one reviewCard call
\* with isCorrect = true, and the countdown set to 30.
C12_RatesMedium ==
    C12_TimeUp
    => /\ ncalls' = ncalls + 1
       /\ ui'.timeLeft = 30
       /\ \E h \in Procs :
             /\ handlers[h].pc = "none"
             /\ handlers'[h].pc = "review"
             /\ calls'[h] = ReviewCall(ClientUser, ui.sessionId,
                                       CardAt(ui.currentCardIndex), ClientDeck, TRUE)
             /\ \A g \in Procs : g # h => calls'[g] = calls[g]

\* The rating's advance shows the next card with the countdown at 30.
C12_FullTimeOnNextCard ==
    \A h \in Procs :
        (ReviewReturned(h) /\ handlers[h].currentCardIndex < handlers[h].length - 1)
        => /\ ui'.currentCardIndex = ui.currentCardIndex + 1
           /\ ~ui'.showAnswer
           /\ ui'.timeLeft = 30

\* C12: in timed mode the countdown reaching zero on a revealed card, not
\* paused, is one rating 'medium' of the current card (one reviewCard call
\* with isCorrect = true, then the advance or the completion), and the
\* next card starts with the countdown at its full 30.
C12_AutoRate == [][C12_RatesMedium /\ C12_FullTimeOnNextCard]_vars

\* A handler resumes after its server call, or the call executes a
\* statement.
HandlerStep ==
    \E h \in Procs : ReviewReturned(h) \/ CompleteReturned(h) \/ ServerStep(h)

\* C19: on a completed page every event (reveal, rate, skip, go back, go
\* forward, pause, bookmark, timer tick) is a no-op: the only steps that
\* change the page, the calls or the store are those of calls made before
\* the completion.
C19_CompletedIsTerminal ==
    [][(ui.sessionCompleted /\ ~HandlerStep)
          => UNCHANGED <<ui, calls, ncalls, handlers, sessions, progress>>]_vars

\* The session was completed on its second card after the first was
\* skipped and bookmarked, the total time tracker having counted.
C19_Witness ==
    /\ ui.sessionCompleted
    /\ sessions[1].completed
    /\ ui.currentCardIndex = 1
    /\ ui.skippedCards # {}
    /\ ui.bookmarkedCards # {}
    /\ ui.totalTime > 0

\* While the page is paused neither timer advances, no rating starts, and
\* the page changes only by togglePause or by the return of a call made
\* before the pause.
C20_Inert ==
    ui.isPaused
    => /\ ui'.timeLeft = ui.timeLeft
       /\ ui'.totalTime = ui.totalTime
       /\ \A h \in Procs : ~Rate(h)
       /\ ui' # ui => (TogglePause \/ \E h \in Procs : ReviewReturned(h) \/ CompleteReturned(h))

\* C20: in every paused state the only event that changes the review
\* state is togglePause: rate, skip, go back and go forward change nothing
\* and start no server call, and timeLeft and totalTime do not advance.
C20_PausedIsInert == [][C20_Inert]_vars

\* The page was paused on a revealed card during its countdown and has
\* been resumed: both timers have counted, before or after the pause.
C20_Witness ==
    /\ ui.isPaused
    /\ ui.showAnswer
    /\ ui.timeLeft < 30
    /\ ui.totalTime > 0

(***************************************************************************)
(* Properties of the events of the study page, checked under SpecTimed     *)
(* and SpecClient.                                                         *)
(***************************************************************************)

\* A rating is issued: a handleCardReview starts in a free slot.
C21_RatingIssued ==
    \E h \in Procs : handlers[h].pc = "none" /\ handlers'[h].pc = "review"

\* A reviewCard request is made.
C21_ReviewCalled ==
    \E p \in Procs : calls[p].op # "review" /\ calls'[p].op = "review"

\* The counters or the wrong set of the page change.
C21_Scored ==
    \/ ui'.cardsAnswered # ui.cardsAnswered
    \/ ui'.correctAnswers # ui.correctAnswers
    \/ ui'.wrongCards # ui.wrongCards

\* C21: a rating (button, key 1-4 or the countdown of timed mode) is
\* issued only on a revealed card of a page that is not paused; reviewCard
\* is called only by a rating so issued, and the counters and the wrong set
\* change only when the reviewCard of such a rating has returned.
C21_RateOnlyRevealed ==
    [][/\ C21_RatingIssued => (ui.showAnswer /\ ~ui.isPaused)
       /\ C21_ReviewCalled => C21_RatingIssued
       /\ C21_Scored => \E h \in Procs : ReviewReturned(h)]_vars

\* A rating is awaiting reviewCard on a page that was paused after it was
\* issued, on a revealed card.
C21_Witness ==
    /\ \E h \in Procs : handlers[h].pc = "review" /\ calls[h].op = "review"
    /\ ui.isPaused
    /\ ui.showAnswer
    /\ ui.cardsAnswered = 0

\* In an active session the index is that of a card of the sequence.
C22_IndexInRange ==
    C14_Active
    => /\ 0 <= ui.currentCardIndex
       /\ ui.currentCardIndex <= Len(ui.studyCards) - 1

\* Previous / Next: no server action is called and nothing is written; a
\* move to another card hides the answer, and no move leaves the page as
\* it was.
C22_Navigation ==
    (GoBack \/ GoForward)
    => /\ UNCHANGED <<calls, ncalls, handlers, sessions, progress>>
       /\ ui'.currentCardIndex # ui.currentCardIndex => ~ui'.showAnswer
       /\ ui'.currentCardIndex = ui.currentCardIndex => ui' = ui

\* C22: in every state of an active session 0 <= currentCardIndex <=
\* length - 1, whatever rate, skip, go back and go forward events occur;
\* go back on the first card and go forward on the last change nothing;
\* navigation calls no server action and hides the answer when it moves.
C22_IndexBounded == [](C22_IndexInRange) /\ [][C22_Navigation]_vars

\* completeStudySession is called for the page's session.
C23_CompleteCalled ==
    \E h \in Procs :
        /\ calls[h].op # "complete"
        /\ calls'[h] = CompleteCall(ClientUser, ui.sessionId)

\* C23: a skip of a card that is not the last shows the next card, its
\* answer hidden and the countdown at 30; a skip of the last card calls
\* completeStudySession, as the rating of the last card does.
C23_SkipAdvancesLikeRating ==
    [][Skip =>
          IF ui.currentCardIndex < Len(ui.studyCards) - 1
          THEN /\ ui'.currentCardIndex = ui.currentCardIndex + 1
               /\ ~ui'.showAnswer
               /\ ui'.timeLeft = 30
          ELSE C23_CompleteCalled]_vars

\* C24: in timed mode every step that changes currentCardIndex (the
\* advance of a rating, skip, go back, go forward) leaves timeLeft at its
\* full 30: no card starts from what the card before left.
C24_CountdownResetOnMove ==
    [][ui'.currentCardIndex # ui.currentCardIndex => ui'.timeLeft = 30]_vars

(***************************************************************************)
(* Properties of the results screen, checked under SpecRestart and         *)
(* SpecResume.                                                             *)
(***************************************************************************)

\* The click on 'Review Wrong Cards' leaves in studyCards exactly the
\* cards of wrongCards, each once.
C25_ListIsWrongSet ==
    \A h \in Procs :
        RestartWithWrongCards(h)
        => /\ {ui'.studyCards[k] : k \in DOMAIN ui'.studyCards} = ui.wrongCards
           /\ Len(ui'.studyCards) = Cardinality(ui.wrongCards)

\* The startStudySession of the restart returns a session other than the
\* completed one, with no card studied, over as many cards as
\* wrongCardsList holds, and the list is still the one of the click.
C25_FreshSession ==
    \A h \in Procs :
        (StartSessionReturned(h) /\ handlers[h].length # 0)
        => /\ ui'.sessionId # 0
           /\ ui'.sessionId # handlers[h].sessionId
           /\ ui'.studyCards = ui.studyCards
           /\ LET session == sessions[ui'.sessionId]
              IN /\ session.cardsStudied = 0
                 /\ session.correctAnswers = 0
                 /\ ~session.completed
                 /\ session.totalCards = handlers[h].length

\* C25: 'Review Wrong Cards' on a completed page starts a fresh session: a
\* session id other than the completed one, cardsStudied = 0,
\* correctAnswers = 0, completed = false, totalCards = the number of wrong
\* cards, and a card list that holds exactly the wrong cards.
C25_RestartIsFresh == [][C25_ListIsWrongSet /\ C25_FreshSession]_vars

\* C26: on the results screen of a completed session the numbers shown are
\* those of the session row: Correct = correctAnswers and Incorrect =
\* cardsStudied - correctAnswers, also for a session that was left during
\* study and resumed through startStudySession.
C26_ReportedIsLedger ==
    (ui.sessionCompleted /\ \A h \in Procs : handlers[h].pc = "none")
    => LET session == sessions[ui.sessionId]
       IN /\ session.completed
          /\ ui.correctAnswers = session.correctAnswers
          /\ ui.cardsAnswered - ui.correctAnswers
                = session.cardsStudied - session.correctAnswers

(***************************************************************************)
(* Properties of the page under failures, checked under SpecFailure.       *)
(***************************************************************************)

\* The handler in slot h resumes from a call that returned success: false.
C27_Failed(h) == Idle(h) /\ calls[h].result # "success"

\* C27: when reviewCard returns success: false the page counts nothing and
\* stays on the card, and when completeStudySession returns success:
\* false the page does not show the session as completed.
C27_FailureIsNotSuccess ==
    [][\A h \in Procs :
          /\ (ReviewReturned(h) /\ C27_Failed(h))
             => /\ ui'.cardsAnswered = ui.cardsAnswered
                /\ ui'.correctAnswers = ui.correctAnswers
                /\ ui'.currentCardIndex = ui.currentCardIndex
          /\ (CompleteReturned(h) /\ C27_Failed(h))
             => ~ui'.sessionCompleted]_vars

(***************************************************************************)
(* Properties of the store under concurrent requests, checked under Spec   *)
(* and SpecForeign.                                                        *)
(***************************************************************************)

\* C28: in every reachable state card_progress holds at most one row per
\* (cardId, userId), whatever updateCardProgress calls interleave, two
\* first reviews of one card by one user included.
C28_OneRowPerCardAndUser ==
    \A c \in CardIds, u \in Users : Cardinality(ExistingProgress(c, u)) <= 1

\* C29: no step changes cardsStudied or correctAnswers of a row that has
\* completed = true, whatever reviewCard call comes later or runs
\* concurrently with completeStudySession.
C29_CompletedCountersFrozen ==
    [][\A i \in SessionRange :
          sessions[i].completed
          => /\ sessions'[i].cardsStudied = sessions[i].cardsStudied
             /\ sessions'[i].correctAnswers = sessions[i].correctAnswers]_vars

\* C30: whatever <<cardId, deckId>> pairs reviewCard has recorded,
\* getDeckProgress returns studiedCards <= totalCards and
\* 0 <= progressPercentage <= 100 for every deck.
C30_ProgressWithinDeck ==
    ui.deckProgress # <<>>
    => /\ ui.deckProgress.studiedCards <= ui.deckProgress.totalCards
       /\ 0 <= ui.deckProgress.progressPercentage
       /\ ui.deckProgress.progressPercentage <= 100

====
